---- MODULE Spec2Model ----
(***************************************************************************)
(* A model of nipype/config/__init__.py: the four configuration sections   *)
(* (class-level state), _Config.load and _Config.get, the settings-file    *)
(* merge run at import, and update(), the logging bootstrap.               *)
(*                                                                         *)
(* Python values are sequences of strings whose head is the type:          *)
(*   <<"None">>  <<"bool","True">>  <<"int","4">>                          *)
(*   <<"str", s1, ..., sn>>     the text s1/s2/.../sn (split at "/")       *)
(*   <<"tuple", e1, ..., en>>   a tuple (or TOML list) of strings          *)
(*   <<"Path", a, p1, ..., pn>> a pathlib.Path, a = "/" when absolute      *)
(*   <<"function", f>>, <<"classmethod", f>>   callables                   *)
(* and an exception that leaves an operation is <<"TypeError">> etc.       *)
(***************************************************************************)
EXTENDS Naturals, Sequences, FiniteSets, TLC

\* ------------------------------------------------------------------ bounds
\* Calls made by the rest of the process after the module is imported.
MaxOps == 2
\* Pairs in one multi-pair override dictionary handed to load.
MaxPairs == 2
\* Top-level tables of a settings file.
MaxFileSections == 2

\* ------------------------------------------------------------------ values
None == <<"None">>
True == <<"bool", "True">>
False == <<"bool", "False">>
Int(d) == <<"int", d>>
Str(segs) == <<"str">> \o segs
Word(s) == <<"str", s>>
Tup(names) == <<"tuple">> \o names
UpdateFn == <<"function", "update">>
NoError == <<"ok">>
TypeError == <<"TypeError">>
ValueError == <<"ValueError">>
AttributeError == <<"AttributeError">>
Errors == {TypeError, ValueError, AttributeError}

IsErr(v) == v \in Errors
IsNone(v) == v = None
IsStr(v) == v[1] = "str"
IsPath(v) == v[1] = "Path"
\* callable(v)
Callable(v) == v[1] \in {"function", "classmethod"}
\* bool(v)
Truthy(v) ==
    CASE v[1] = "None" -> FALSE
      [] v[1] = "bool" -> v = True
      [] v[1] = "int" -> v[2] # "0"
      [] v[1] = "str" -> v # Word("")
      [] v[1] = "tuple" -> Len(v) > 1
      [] OTHER -> TRUE

\* Path.cwd() and the configuration home (NIPYPE_CONFIG_DIR or ~/.nipype).
CwdParts == <<"work">>
HomeParts == <<"home", ".nipype">>

\* pathlib.Path(v): a str is split at "/", empty and "." segments are
\* dropped, a leading "/" makes it absolute; ".." is kept as it is.
PathOf(v) ==
    IF IsPath(v) THEN v
    ELSE IF IsStr(v) THEN
        LET segs == Tail(v)
            parts == SelectSeq(segs, LAMBDA s : s \notin {"", "."})
        IN  <<"Path", IF Len(segs) > 1 /\ segs[1] = "" THEN "/" ELSE "">> \o parts
    ELSE TypeError

PathParts(p) == SubSeq(p, 3, Len(p))
IsAbsolute(p) == IsPath(p) /\ p[2] = "/"

\* Path.absolute(): prefixes the working directory, resolves nothing.
Absolute(p) ==
    IF IsAbsolute(p) THEN p ELSE <<"Path", "/">> \o CwdParts \o PathParts(p)

\* p / name
Join(p, name) == p \o <<name>>

\* str(v)
PyStr(v) ==
    CASE IsStr(v) -> v
      [] IsPath(v) ->
            IF IsAbsolute(v) THEN
                IF Len(v) = 2 THEN Str(<<"", "">>) ELSE Str(<<"">> \o PathParts(v))
            ELSE IF Len(v) = 2 THEN Word(".") ELSE Str(PathParts(v))
      [] v[1] \in {"None", "bool", "int"} -> Word(v[Len(v)])
      [] OTHER -> <<"str", "repr">> \o v

\* k in c: membership in a tuple or list, substring of a str (no setting name
\* is a proper substring of a text of the model), TypeError otherwise.
Container(c) == c[1] \in {"tuple", "list", "str"}
In(k, c) ==
    CASE c[1] \in {"tuple", "list"} -> \E i \in 2..Len(c) : c[i] = k
      [] c[1] = "str" -> c = Word(k)
      [] OTHER -> FALSE

\* ---------------------------------------------------------------- sections
SectionNames == {"logging", "execution", "monitoring", "check"}

\* What a class statement puts in the class dictionary besides its body.
ClassDunder(doc) == "__module__" :> Word("nipype.config") @@ "__doc__" :> Word(doc)

ConfigClass ==
    ClassDunder("An abstract class forbidding instantiation.")
    @@ "_paths" :> Tup(<<>>)
    @@ "__init__" :> <<"function", "__init__">>
    @@ "load" :> <<"classmethod", "load">>
    @@ "get" :> <<"classmethod", "get">>

LogDirDefault == PyStr(Join(<<"Path", "/">> \o HomeParts, "log"))

LoggingDefaults ==
    "interface_level" :> Word("INFO")
    @@ "log_directory" :> LogDirDefault
    @@ "log_rotate" :> Int("4")
    @@ "log_size" :> Int("16384000")
    @@ "log_to_file" :> False
    @@ "utils_level" :> Word("INFO")
    @@ "workflow_level" :> Word("INFO")

ExecutionDefaults ==
    "check_version" :> True
    @@ "crashdump_dir" :> LogDirDefault
    @@ "crashfile_format" :> Word("pklz")
    @@ "create_report" :> True
    @@ "hash_method" :> Word("timestamp")
    @@ "job_finished_timeout" :> Int("5")
    @@ "keep_inputs" :> False
    @@ "local_hash_check" :> True
    @@ "matplotlib_backend" :> Word("Agg")
    @@ "parameterize_dirs" :> True
    @@ "plugin" :> Word("Linear")
    @@ "poll_sleep_duration" :> Int("2")
    @@ "remove_node_directories" :> False
    @@ "remove_unnecessary_outputs" :> True
    @@ "single_thread_matlab" :> True
    @@ "stop_on_first_crash" :> False
    @@ "stop_on_first_rerun" :> False
    @@ "stop_on_unknown_version" :> False
    @@ "try_hard_link_datasink" :> True
    @@ "use_relative_paths" :> False
    @@ "write_provenance" :> False
    @@ "xvfb_max_wait" :> Int("10")

MonitoringDefaults ==
    "enabled" :> False
    @@ "sample_frequency" :> Int("1")
    @@ "summary_append" :> True

CheckDefaults == "interval" :> Int("1209600")

\* The declared settings of each section with their defaults.
Defaults ==
    "logging" :> LoggingDefaults
    @@ "execution" :> ExecutionDefaults
    @@ "monitoring" :> MonitoringDefaults
    @@ "check" :> CheckDefaults

Declared(S) == DOMAIN Defaults[S]

\* The class dictionary of each section as its class statement leaves it.
ClassDict(S) ==
    CASE S = "logging" -> ClassDunder("The logging section.") @@ LoggingDefaults
      [] S = "execution" ->
            ClassDunder("The execution section.") @@ ExecutionDefaults
            @@ "_cwd" :> Absolute(<<"Path", "/">> \o CwdParts)
      [] S = "monitoring" -> ClassDunder("The monitoring section.") @@ MonitoringDefaults
      [] S = "check" -> ClassDunder("The check section.") @@ CheckDefaults

\* The objects the module's namespace binds that take attributes: the four
\* sections, their base class and the os module.
DeclaredObjects ==
    [o \in SectionNames |-> ClassDict(o)]
    @@ "_Config" :> ConfigClass
    @@ "os" :> ("name" :> Word("posix"))

\* Names bound in the module's namespace when the settings file is merged
\* whose objects refuse setattr (a PosixPath, a str).
SealedGlobals == {"_nipype_home", "__name__"}

\* hasattr / getattr on an object of the namespace: the object's own
\* dictionary, then for a section the dictionary of _Config. The names a
\* class has from its metaclass (__name__, __dict__, mro, ...) are not among
\* the keys the model draws.
HasAttr(ns, o, k) ==
    \/ k \in DOMAIN ns[o]
    \/ o \in SectionNames /\ k \in DOMAIN ns["_Config"]

GetAttr(ns, o, k) ==
    IF k \in DOMAIN ns[o] THEN ns[o][k]
    ELSE IF o \in SectionNames /\ k \in DOMAIN ns["_Config"] THEN ns["_Config"][k]
    ELSE AttributeError

\* setattr(o, k, v)
SetAttr(ns, o, k, v) ==
    IF k \in DOMAIN ns[o] THEN [ns EXCEPT ![o][k] = v]
    ELSE [ns EXCEPT ![o] = (k :> v) @@ ns[o]]

\* ----------------------------------------------------------------- logging
\* The state of Python's logging module that update() writes: the root
\* logger's handlers and level, the warnings capture, the three sub-loggers.
SubLoggers == {"nipype.workflow", "nipype.utils", "nipype.interface"}

LoggingAtStart ==
    [handlers |-> <<>>, root |-> Int("30"), capture |-> FALSE,
     sub |-> [l \in SubLoggers |-> Int("0")]]

LevelNames == {"CRITICAL", "FATAL", "ERROR", "WARN", "WARNING", "INFO", "DEBUG", "NOTSET"}
LevelNumbers == {"50", "40", "30", "20", "10", "0"}

\* logging._nameToLevel
NameToLevel(n) ==
    CASE n \in {"CRITICAL", "FATAL"} -> "50"
      [] n = "ERROR" -> "40"
      [] n \in {"WARN", "WARNING"} -> "30"
      [] n = "INFO" -> "20"
      [] n = "DEBUG" -> "10"
      [] n = "NOTSET" -> "0"

\* Logger.setLevel(logging.getLevelName(v)): a level name gives its number, a
\* level number its name and then the number again (False equals 0), a list
\* cannot be hashed, anything else becomes the text "Level ..." that setLevel
\* refuses.
SetLevelArg(v) ==
    CASE v[1] = "str" /\ Len(v) = 2 /\ v[2] \in LevelNames -> Int(NameToLevel(v[2]))
      [] v[1] = "int" /\ v[2] \in LevelNumbers -> v
      [] v = False -> Int("0")
      [] v[1] = "list" -> TypeError
      [] OTHER -> ValueError

ConsoleHandler == <<<<"StreamHandler">>, Word("stdout")>>
RFHandler(path, maxBytes, backupCount) ==
    <<<<"RotatingFileHandler">>, path, maxBytes, backupCount>>

\* Variant of BasicConfig without force=True: basicConfig leaves a root
\* logger that has handlers as it is.
BasicConfigKeep(log) ==
    [log EXCEPT !.capture = TRUE,
                !.root = IF log.handlers = <<>> THEN Int("20") ELSE @,
                !.handlers = IF @ = <<>> THEN <<ConsoleHandler>> ELSE @]

\* logging.captureWarnings(True) and logging.basicConfig(..., force=True):
\* force removes every handler of the root logger before the console handler
\* is added.
BasicConfig(log) ==
    [log EXCEPT !.capture = TRUE, !.root = Int("20"), !.handlers = <<ConsoleHandler>>]

\* update() after its basicConfig call left `based`: the state of logging it
\* leaves and the exception it raises, if any. Each statement acts on what
\* the statements before it left: a raise keeps the effects of the
\* statements already run.
UpdateFrom(ns, log, based) ==
    LET sec(k) == GetAttr(ns, "logging", k)
        w == SetLevelArg(sec("workflow_level"))
        u == SetLevelArg(sec("utils_level"))
        i == SetLevelArg(sec("interface_level"))
        l1 == [based EXCEPT !.sub["nipype.workflow"] = w]
        l2 == [l1 EXCEPT !.sub["nipype.utils"] = u]
        l3 == [l2 EXCEPT !.sub["nipype.interface"] = i]
        dir == PathOf(sec("log_directory"))
        size == sec("log_size")
    IN  IF IsErr(w) THEN [log |-> based, err |-> w]
        ELSE IF IsErr(u) THEN [log |-> l1, err |-> u]
        ELSE IF IsErr(i) THEN [log |-> l2, err |-> i]
        ELSE IF ~Truthy(sec("log_to_file")) THEN [log |-> l3, err |-> NoError]
        ELSE IF IsErr(dir) THEN [log |-> l3, err |-> dir]
        ELSE IF size[1] \notin {"int", "bool"} THEN [log |-> l3, err |-> TypeError]
        ELSE [log |-> [l3 EXCEPT !.handlers =
                          Append(@, RFHandler(PyStr(Join(dir, "nipype.log")),
                                              size, sec("log_rotate")))],
              err |-> NoError]

\* Variant of Update whose basicConfig call has no force=True.
UpdateNoForce(ns, log) == UpdateFrom(ns, log, BasicConfigKeep(log))

Update(ns, log) == UpdateFrom(ns, log, BasicConfig(log))

\* -------------------------------------------------------------------- load
\* Variant of LoadPair without the `if v is None: continue` of lines 47-48.
LoadPairNoSkip(ns, S, k, v) ==
    LET paths == GetAttr(ns, S, "_paths")
    IN  IF ~Container(paths) THEN [ns |-> ns, err |-> TypeError]
        ELSE IF In(k, paths) THEN
            IF IsErr(PathOf(v)) THEN [ns |-> ns, err |-> PathOf(v)]
            ELSE [ns |-> SetAttr(ns, S, k, Absolute(PathOf(v))), err |-> NoError]
        ELSE IF HasAttr(ns, S, k) THEN [ns |-> SetAttr(ns, S, k, v), err |-> NoError]
        ELSE [ns |-> ns, err |-> NoError]

\* The body of the loop of _Config.load for one pair (k, v).
LoadPair(ns, S, k, v) ==
    LET paths == GetAttr(ns, S, "_paths")
    IN  IF IsNone(v) THEN [ns |-> ns, err |-> NoError]
        ELSE IF ~Container(paths) THEN [ns |-> ns, err |-> TypeError]
        ELSE IF In(k, paths) THEN
            IF IsErr(PathOf(v)) THEN [ns |-> ns, err |-> PathOf(v)]
            ELSE [ns |-> SetAttr(ns, S, k, Absolute(PathOf(v))), err |-> NoError]
        ELSE IF HasAttr(ns, S, k) THEN [ns |-> SetAttr(ns, S, k, v), err |-> NoError]
        ELSE [ns |-> ns, err |-> NoError]

\* The loop of _Config.load over the pairs of settings, in order; an
\* exception ends it and keeps what the pairs before it assigned.
RECURSIVE LoadPairs(_, _, _)
LoadPairs(ns, S, settings) ==
    IF settings = <<>> THEN [ns |-> ns, err |-> NoError]
    ELSE LET r == LoadPair(ns, S, settings[1][1], settings[1][2])
         IN  IF IsErr(r.err) THEN r ELSE LoadPairs(r.ns, S, Tail(settings))

\* cls.init() inside try/except AttributeError: no init attribute is
\* swallowed; update bound as init runs; anything else bound as init cannot
\* be called without arguments.
\* Variant of CallInit without the except AttributeError of lines 58-59.
CallInitNoCatch(ns, log, S) ==
    LET hook == GetAttr(ns, S, "init")
    IN  IF hook = AttributeError THEN [log |-> log, err |-> AttributeError, ran |-> FALSE]
        ELSE IF hook = UpdateFn THEN
            LET r == Update(ns, log)
            IN  [log |-> r.log, ran |-> TRUE, err |-> r.err]
        ELSE [log |-> log, err |-> TypeError, ran |-> FALSE]

CallInit(ns, log, S) ==
    LET hook == GetAttr(ns, S, "init")
    IN  IF hook = AttributeError THEN [log |-> log, err |-> NoError, ran |-> FALSE]
        ELSE IF hook = UpdateFn THEN
            LET r == Update(ns, log)
            IN  [log |-> r.log, ran |-> TRUE,
                 err |-> IF r.err = AttributeError THEN NoError ELSE r.err]
        ELSE [log |-> log, err |-> TypeError, ran |-> FALSE]

\* S.load(settings, init): the attribute load is looked up on the section and
\* called; the result is the namespace and logging state left behind, the
\* exception that leaves the call, and whether update() ran.
Load(ns, log, S, settings, init) ==
    IF GetAttr(ns, S, "load") # <<"classmethod", "load">>
    THEN [ns |-> ns, log |-> log, err |-> TypeError, ran |-> FALSE]
    ELSE
        LET p == LoadPairs(ns, S, settings)
        IN  IF IsErr(p.err) \/ ~init
            THEN [ns |-> p.ns, log |-> log, err |-> p.err, ran |-> FALSE]
            ELSE LET h == CallInit(p.ns, log, S)
                 IN  [ns |-> p.ns, log |-> h.log, err |-> h.err, ran |-> h.ran]

\* --------------------------------------------------------------------- get
\* k.startswith("_"), over the attribute names of the model.
Private(k) ==
    k \in {"__module__", "__doc__", "__init__", "__name__", "_paths", "_cwd",
           "_nipype_home", "_Config"}

\* The body of _Config.get: the mapping built from cls.__dict__, or the
\* TypeError of `k in cls._paths` when _paths is no container.
GetBody(ns, S) ==
    LET d == ns[S]
        paths == GetAttr(ns, S, "_paths")
        keys == {k \in DOMAIN d :
                    /\ ~Private(k)
                    /\ ~IsNone(d[k])
                    /\ ~Callable(GetAttr(ns, S, k))}
    IN  IF keys # {} /\ ~Container(paths) THEN [out |-> <<>>, err |-> TypeError]
        ELSE [out |-> [k \in keys |-> IF In(k, paths) THEN PyStr(d[k]) ELSE d[k]],
              err |-> NoError]

\* S.get(): the attribute get is looked up on the section and called.
Get(ns, S) ==
    IF GetAttr(ns, S, "get") # <<"classmethod", "get">>
    THEN [out |-> <<>>, err |-> TypeError]
    ELSE GetBody(ns, S)

\* ------------------------------------------------------- settings-file merge
\* A parsed settings file is a sequence of <<table name, pairs>>, the pairs a
\* sequence of <<key, value>>, in file order.
\* Variant of AssignAll that assigns on the base class, not on the object
\* the table names.
RECURSIVE AssignAllToBase(_, _, _)
AssignAllToBase(ns, o, pairs) ==
    IF pairs = <<>> THEN ns
    ELSE AssignAllToBase(SetAttr(ns, "_Config", pairs[1][1], pairs[1][2]), o, Tail(pairs))

RECURSIVE AssignAll(_, _, _)
AssignAll(ns, o, pairs) ==
    IF pairs = <<>> THEN ns
    ELSE AssignAll(SetAttr(ns, o, pairs[1][1], pairs[1][2]), o, Tail(pairs))

\* The loop of the merge: getattr(module, sectionname), then setattr of every
\* pair on what was found. A name the namespace does not bind, or an object
\* that takes no attributes, raises AttributeError and ends the import.
\* Variant of MergeDoc that leaves the loop after the first table.
MergeDocFirstOnly(ns, doc) ==
    IF doc = <<>> THEN [ns |-> ns, err |-> NoError]
    ELSE
        LET name == doc[1][1]
            pairs == doc[1][2]
        IN  IF name \in DOMAIN ns THEN [ns |-> AssignAll(ns, name, pairs), err |-> NoError]
            ELSE IF name \in SealedGlobals /\ pairs = <<>> THEN [ns |-> ns, err |-> NoError]
            ELSE [ns |-> ns, err |-> AttributeError]

RECURSIVE MergeDoc(_, _)
MergeDoc(ns, doc) ==
    IF doc = <<>> THEN [ns |-> ns, err |-> NoError]
    ELSE
        LET name == doc[1][1]
            pairs == doc[1][2]
        IN  IF name \in DOMAIN ns THEN MergeDoc(AssignAll(ns, name, pairs), Tail(doc))
            ELSE IF name \in SealedGlobals /\ pairs = <<>> THEN MergeDoc(ns, Tail(doc))
            ELSE [ns |-> ns, err |-> AttributeError]

\* __str__ before toml.dumps: the four sections' get() by section name.
SectionOrder == <<"logging", "execution", "monitoring", "check">>

RECURSIVE PairsOf(_)
PairsOf(f) ==
    IF DOMAIN f = {} THEN <<>>
    ELSE LET k == CHOOSE x \in DOMAIN f : TRUE
         IN  <<<<k, f[k]>>>> \o PairsOf([x \in DOMAIN f \ {k} |-> f[x]])

Document(ns) == [i \in 1..4 |-> <<SectionOrder[i], PairsOf(Get(ns, SectionOrder[i]).out)>>]

\* ------------------------------------------------------------------- inputs
\* Values handed to load by callers, assigned directly, and read from a file.
RelPath == Str(<<"rel", ".", "log">>)
AbsPathObj == <<"Path", "/", "data", "out">>
PathNames == Tup(<<"log_directory", "crashdump_dir">>)
LoadValues == {None, Word("DEBUG")}
AssignValues == {None, AbsPathObj, UpdateFn}
FileValues == {Word("MultiProc"), Word("DEBUG"), True, <<"list", "log_directory">>}

LoadKeys(S) ==
    CASE S = "logging" ->
            {"workflow_level", "log_to_file", "log_directory", "unknown_key",
             "get", "_paths", "init"}
      [] S = "execution" -> {"plugin", "crashdump_dir", "_cwd", "load", "unknown_key"}
      [] S = "monitoring" -> {"enabled", "unknown_key"}
      [] S = "check" -> {"interval", "unknown_key"}

\* Pairs with another value: a relative path with a "." component, a bool,
\* a tuple of names.
OtherPairs(S) ==
    CASE S = "logging" ->
            {<<"log_directory", RelPath>>, <<"workflow_level", RelPath>>,
             <<"log_to_file", True>>, <<"_paths", True>>, <<"_paths", PathNames>>}
      [] S = "execution" -> {<<"crashdump_dir", RelPath>>}
      [] S = "monitoring" -> {<<"enabled", True>>}
      [] OTHER -> {}

\* Keys of the dictionaries of several pairs, as <<rank, key>>: a dictionary
\* lists its keys by rising rank.
MultiKeys(S) ==
    CASE S = "logging" -> {<<1, "workflow_level">>, <<2, "log_directory">>, <<3, "unknown_key">>}
      [] OTHER -> {}
MultiValues == {None, Word("DEBUG")}

AssignKeys(S) ==
    CASE S = "logging" -> {"init", "log_directory", "workflow_level"}
      [] S = "execution" -> {"crashdump_dir"}
      [] OTHER -> {}

\* Override dictionaries: every single pair, and the dictionaries of 2 to
\* MaxPairs pairs.
Distinct(s) == \A i, j \in DOMAIN s : i # j => s[i][1] # s[j][1]
Rising(ks) == \A i, j \in DOMAIN ks : i < j => ks[i][1] < ks[j][1]
OverridesOf ==
    [S \in SectionNames |->
        {<<p>> : p \in (LoadKeys(S) \X LoadValues) \cup OtherPairs(S)}
        \cup UNION {{[i \in 1..n |-> <<ks[i][2], vs[i]>>] :
                        ks \in {x \in [1..n -> MultiKeys(S)] : Rising(x)},
                        vs \in [1..n -> MultiValues]} : n \in 2..MaxPairs}]
Overrides(S) == OverridesOf[S]

\* Settings files: tables with at most one pair each, distinct table names.
FileTables ==
    {"logging", "execution", "monitoring", "check", "_Config", "os", "_nipype_home", "bogus"}
FileKeys(name) ==
    CASE name = "logging" -> {"workflow_level", "log_to_file"}
      [] name = "execution" -> {"plugin", "foo"}
      [] name = "monitoring" -> {"enabled"}
      [] name = "check" -> {"interval"}
      [] name = "_Config" -> {"_paths"}
      [] OTHER -> {"foo"}
FileEntries ==
    {<<name, <<>>>> : name \in FileTables}
    \cup UNION {{<<name, <<<<k, v>>>>>> : k \in FileKeys(name), v \in FileValues} :
                   name \in FileTables}
Documents ==
    UNION {{d \in [1..n -> FileEntries] : Distinct(d)} : n \in 0..MaxFileSections}
NoFile == [exists |-> FALSE, doc |-> <<>>]
AllFiles == {NoFile} \cup {[exists |-> TRUE, doc |-> d] : d \in Documents}
RunFiles ==
    {NoFile,
     [exists |-> TRUE,
      doc |-> <<<<"logging", <<<<"workflow_level", Word("WARNING")>>,
                               <<"log_to_file", True>>>>>>>>]}

\* -------------------------------------------------------------------- state
VARIABLES
    pc,      \* where the import stands: merge, update, ready, crashed
    file,    \* the settings file found under the configuration home
    ns,      \* attribute dictionaries of the sections, _Config and os
    log,     \* the state of Python's logging
    nupd,    \* how many times update() has run
    upd,     \* the logging section the last run of update() read, its exception
    nops,    \* calls made since the import
    last     \* the last call: its arguments, exception and result

vars == <<pc, file, ns, log, nupd, upd, nops, last>>

Call(op, S, settings, init, err, ran, out) ==
    [op |-> op, sec |-> S, settings |-> settings, init |-> init, err |-> err,
     ran |-> ran, out |-> out]

\* The module body has run up to the class statements (lines 28-127).
Start(files) ==
    /\ pc = "merge"
    /\ file \in files
    /\ ns = DeclaredObjects
    /\ log = LoggingAtStart
    /\ nupd = 0
    /\ upd = [seen |-> DeclaredObjects["logging"], err |-> NoError]
    /\ nops = 0
    /\ last = Call("declare", "", <<>>, FALSE, NoError, FALSE, <<>>)

Init == Start(RunFiles)
InitStartup == Start(AllFiles)

\* Lines 130-138: the settings file, if there is one, is merged.
ImportMerge ==
    /\ pc = "merge"
    /\ LET r == IF file.exists THEN MergeDoc(ns, file.doc)
                 ELSE [ns |-> ns, err |-> NoError]
       IN  /\ ns' = r.ns
           /\ pc' = IF IsErr(r.err) THEN "crashed" ELSE "update"
           /\ last' = Call("merge", "", <<>>, FALSE, r.err, FALSE, <<>>)
    /\ UNCHANGED <<file, log, nupd, upd, nops>>

\* Line 187: update() at the end of the module body.
ImportUpdate ==
    /\ pc = "update"
    /\ LET r == Update(ns, log)
       IN  /\ log' = r.log
           /\ pc' = IF IsErr(r.err) THEN "crashed" ELSE "ready"
           /\ upd' = [seen |-> ns["logging"], err |-> r.err]
           /\ last' = Call("update", "", <<>>, FALSE, r.err, TRUE, <<>>)
    /\ nupd' = nupd + 1
    /\ UNCHANGED <<file, ns, nops>>

Ready == pc = "ready" /\ nops < MaxOps

\* A caller runs S.load(settings, init).
CallLoad(S, settings, init) ==
    /\ Ready
    /\ LET r == Load(ns, log, S, settings, init)
       IN  /\ ns' = r.ns
           /\ log' = r.log
           /\ nupd' = IF r.ran THEN nupd + 1 ELSE nupd
           /\ upd' = IF r.ran THEN [seen |-> r.ns["logging"], err |-> r.err] ELSE upd
           /\ last' = Call("load", S, settings, init, r.err, r.ran, <<>>)
    /\ nops' = nops + 1
    /\ UNCHANGED <<pc, file>>

\* A caller runs S.get().
CallGet(S) ==
    /\ Ready
    /\ LET r == Get(ns, S)
       IN  last' = Call("get", S, <<>>, FALSE, r.err, FALSE, r.out)
    /\ nops' = nops + 1
    /\ UNCHANGED <<pc, file, ns, log, nupd, upd>>

\* A caller runs update().
CallUpdate ==
    /\ Ready
    /\ LET r == Update(ns, log)
       IN  /\ log' = r.log
           /\ upd' = [seen |-> ns["logging"], err |-> r.err]
           /\ last' = Call("update", "", <<>>, FALSE, r.err, TRUE, <<>>)
    /\ nupd' = nupd + 1
    /\ nops' = nops + 1
    /\ UNCHANGED <<pc, file, ns>>

\* A collaborator assigns an attribute of a section directly: S.k = v.
Assign(S, k, v) ==
    /\ Ready
    /\ ns' = SetAttr(ns, S, k, v)
    /\ last' = Call("assign", S, <<<<k, v>>>>, FALSE, NoError, FALSE, <<>>)
    /\ nops' = nops + 1
    /\ UNCHANGED <<pc, file, log, nupd, upd>>

Next ==
    \/ ImportMerge
    \/ ImportUpdate
    \/ \E S \in SectionNames, init \in BOOLEAN :
            \E settings \in Overrides(S) : CallLoad(S, settings, init)
    \/ \E S \in SectionNames : CallGet(S)
    \/ CallUpdate
    \/ \E S \in SectionNames : \E k \in AssignKeys(S), v \in AssignValues : Assign(S, k, v)

Spec == Init /\ [][Next]_vars

\* The import alone, over every settings file of the model.
NextStartup == ImportMerge \/ ImportUpdate

SpecStartup == InitStartup /\ [][NextStartup]_vars

\* ------------------------------------------------------------------- claims
\* The settings the specification calls path-typed: the log and
\* crash-artifact locations.
PathTyped(S) ==
    CASE S = "logging" -> {"log_directory"}
      [] S = "execution" -> {"crashdump_dir"}
      [] OTHER -> {}

\* An absolute path with no ".", ".." or empty component.
Normalized(p) ==
    /\ IsAbsolute(p)
    /\ \A i \in 3..Len(p) : p[i] \notin {"", ".", ".."}

\* The pair (k, v) of the last call's settings that decides k: the last one.
Decides(i) ==
    \A j \in DOMAIN last.settings : j > i => last.settings[j][1] # last.settings[i][1]

\* C1: S.load({k: v}, init) with a key k that is not a declared setting of S
\* raises no error and leaves every attribute of S as it was.
C1_UnknownKeyIgnored ==
    [][(/\ last'.op = "load"
        /\ Len(last'.settings) = 1
        /\ last'.settings[1][1] \notin Declared(last'.sec))
       => (last'.err = NoError /\ ns'[last'.sec] = ns[last'.sec])]_vars

\* C2: after the import, with or without a settings file, every section has
\* exactly the attribute names it was declared with.
C2_AttributeSetFixed ==
    pc \in {"update", "ready"} =>
        /\ \A S \in SectionNames : DOMAIN ns[S] = DOMAIN ClassDict(S)
        /\ DOMAIN ns["_Config"] = DOMAIN ConfigClass

\* C3: a path-typed setting assigned through load holds an absolute,
\* normalized path, never the string that was supplied.
C3_PathSettingsAbsolute ==
    (last.op = "load" /\ last.err = NoError) =>
        \A i \in DOMAIN last.settings :
            LET k == last.settings[i][1]
                v == last.settings[i][2]
            IN  (k \in PathTyped(last.sec) /\ ~IsNone(v) /\ Decides(i))
                    => (IsPath(ns[last.sec][k]) /\ Normalized(ns[last.sec][k]))

\* A value a setting takes: a scalar or a path.
SettingValue(v) == v[1] \in {"bool", "int", "str", "Path"}
AllSettingValues == \A S \in SectionNames : \A k \in Declared(S) : SettingValue(ns[S][k])

\* get() of the four sections, path values as strings.
Snapshot(n) ==
    [S \in SectionNames |->
        LET g == Get(n, S).out
        IN  [k \in DOMAIN g |-> IF IsPath(g[k]) THEN PyStr(g[k]) ELSE g[k]]]

\* Every section back to its class statement.
Reset(n) == [o \in DOMAIN n |-> IF o \in SectionNames THEN ClassDict(o) ELSE n[o]]

\* C4: the document of the four sections' get(), merged onto the sections
\* reset to their defaults the way the import merges a settings file, gives
\* back the get() of every section, whenever every declared setting holds a
\* setting value (a scalar or a path) and the document can be produced.
C4_RoundTrip ==
    (/\ pc = "ready"
     /\ AllSettingValues
     /\ \A S \in SectionNames : Get(ns, S).err = NoError)
    => LET back == MergeDoc(Reset(ns), Document(ns))
       IN  back.err = NoError /\ Snapshot(back.ns) = Snapshot(ns)

C4_Witness ==
    /\ pc = "ready"
    /\ AllSettingValues
    /\ \A S \in SectionNames : Get(ns, S).err = NoError
    /\ ns["logging"]["log_directory"] = AbsPathObj
    /\ ns["execution"]["plugin"] = Word("DEBUG")

HandlerCount(kind) ==
    Cardinality({i \in DOMAIN log.handlers : log.handlers[i][1] = <<kind>>})

\* The severity a level setting names.
SameLevel(sev, setting) ==
    \/ /\ setting[1] = "str" /\ Len(setting) = 2 /\ setting[2] \in LevelNames
       /\ sev = Int(NameToLevel(setting[2]))
    \/ setting[1] = "int" /\ sev = setting
    \/ setting = False /\ sev = Int("0")

\* C5: once update() has run, whatever calls and changes of the logging
\* section came before and after, the root logger has exactly one console
\* handler; and when the last run returned, the three sub-loggers have the
\* severities the logging section named at that run, and the root logger has
\* one rotating-file handler if log_to_file was true at that run, none if it
\* was false.
C5_UpdateReplaces ==
    nupd > 0 =>
        /\ HandlerCount("StreamHandler") = 1
        /\ upd.err = NoError =>
            /\ SameLevel(log.sub["nipype.workflow"], upd.seen["workflow_level"])
            /\ SameLevel(log.sub["nipype.utils"], upd.seen["utils_level"])
            /\ SameLevel(log.sub["nipype.interface"], upd.seen["interface_level"])
            /\ HandlerCount("RotatingFileHandler") =
                    IF Truthy(upd.seen["log_to_file"]) THEN 1 ELSE 0

C5_Witness ==
    /\ last.op = "update" /\ last.err = NoError
    /\ nupd = 2 /\ nops = 2
    /\ file.exists
    /\ Truthy(ns["logging"]["log_to_file"])
    /\ log.sub["nipype.workflow"] = Int("10")
    /\ HandlerCount("RotatingFileHandler") = 1

\* What the settings file gives for setting k of section S.
FilePairs(S) ==
    UNION {{file.doc[i][2][j] : j \in DOMAIN file.doc[i][2]} :
             i \in {x \in DOMAIN file.doc : file.doc[x][1] = S}}
FileGives(S, k) == {p[2] : p \in {q \in FilePairs(S) : q[1] = k}}

C7_UnknownTableFatal ==
    (/\ pc # "merge"
     /\ file.exists
     /\ \E i \in DOMAIN file.doc : file.doc[i][1] \notin SectionNames)
    => /\ pc = "crashed"
       /\ last.op = "merge"
       /\ last.err = AttributeError
       /\ ns["os"] = DeclaredObjects["os"]
       /\ ns["_Config"] = ConfigClass

\* The mapping the specification describes for get(): the attributes of S
\* that are not private, not callable and set, path-typed values as strings.
ExpectedGet(S) ==
    LET d == ns[S]
        keys == {k \in DOMAIN d : ~Private(k) /\ ~IsNone(d[k]) /\ ~Callable(d[k])}
    IN  [k \in keys |-> IF k \in PathTyped(S) THEN PyStr(d[k]) ELSE d[k]]

\* C8: in every state after the import, S.get() returns the mapping of the
\* non-private, non-callable, set attributes of S to their values, the
\* path-typed ones as plain strings.
C8_GetMapping ==
    pc = "ready" =>
        \A S \in SectionNames :
            Get(ns, S).err = NoError /\ Get(ns, S).out = ExpectedGet(S)

\* C9: a pair of load whose value is None leaves the attribute it names as
\* it was, and when load returns, every other pair that names a declared
\* setting has been applied.
C9_NoneNeverClears ==
    [][last'.op = "load" =>
        \A i \in DOMAIN last'.settings :
            LET S == last'.sec
                k == last'.settings[i][1]
                v == last'.settings[i][2]
            IN  /\ IsNone(v) =>
                    /\ HasAttr(ns', S, k) = HasAttr(ns, S, k)
                    /\ GetAttr(ns', S, k) = GetAttr(ns, S, k)
                /\ (~IsNone(v) /\ k \in Declared(S) /\ last'.err = NoError) =>
                    ns'[S][k] = IF In(k, GetAttr(ns', S, "_paths"))
                                THEN Absolute(PathOf(v)) ELSE v]_vars

C9_Witness ==
    /\ last.op = "load" /\ last.err = NoError
    /\ Len(last.settings) = 2
    /\ last.settings[1] = <<"workflow_level", None>>
    /\ last.settings[2] = <<"log_directory", Word("DEBUG")>>
    /\ ns["logging"]["workflow_level"] = Word("WARNING")
    /\ ns["logging"]["log_directory"] = Word("DEBUG")

\* C10: update() does not run before the merge is over and has run exactly
\* once when the import ends, on the logging values the file gave; a load
\* with init true on a section whose init is update runs it once more, on the
\* values the pairs of that load left; a load with init false, or on a
\* section with no init, does not run it and raises nothing.
C10_BootstrapOrdering ==
    /\ [](pc \in {"merge", "update"} => nupd = 0)
    /\ []((pc = "ready" /\ nops = 0) =>
            /\ nupd = 1
            /\ last.op = "update"
            /\ log = Update(ns, LoggingAtStart).log)
    /\ [][last'.op = "load" =>
            LET S == last'.sec
                p == LoadPairs(ns, S, last'.settings)
                hook == GetAttr(p.ns, S, "init")
            IN  (GetAttr(ns, S, "load") = <<"classmethod", "load">> /\ p.err = NoError) =>
                /\ (last'.init /\ hook = UpdateFn) =>
                        /\ last'.ran
                        /\ nupd' = nupd + 1
                        /\ log' = Update(ns', log).log
                /\ (~last'.init \/ hook = AttributeError) =>
                        /\ ~last'.ran
                        /\ nupd' = nupd
                        /\ log' = log
                        /\ last'.err = NoError]_vars

C10_Witness ==
    /\ last.op = "load" /\ last.sec = "logging" /\ last.init /\ last.ran
    /\ last.err = NoError
    /\ last.settings = <<<<"workflow_level", Word("DEBUG")>>>>
    /\ ~file.exists
    /\ nupd = 2
    /\ log.sub["nipype.workflow"] = Int("10")

====
